---- MODULE Spec2Model ----
(***************************************************************************)
(* Model of euler(odefun, tspan, y0) from src/euler.py: forward Euler      *)
(* integration over a caller supplied time grid.                           *)
(*                                                                         *)
(* An ndarray is a record [shape, data]: shape is <<>> for a 0-d array,    *)
(* <<k>> for a 1-d array and <<n, m>> for a 2-d array; data is the flat    *)
(* row-major content.  Values are integers: every value of the model is    *)
(* exactly representable as a float64, so the float arithmetic of the      *)
(* code is exact on them.  Indices idx are 0-based as in the code; the     *)
(* sequences of TLA+ are 1-based, hence the +1 in the accesses.            *)
(*                                                                         *)
(* odefun is an external callable: the model draws it from a small family  *)
(* of derivative laws (kind) and lets every call return any shape.         *)
(***************************************************************************)
EXTENDS Integers, Sequences, FiniteSets, TLC

VARIABLES tspan, y0, kind, pc, f, t, y, idx, calls, err, allMatch

vars == <<tspan, y0, kind, pc, f, t, y, idx, calls, err, allMatch>>

\* ---------------------------------------------------------------- bounds
MaxN == 3
MaxM == 2
MaxTime == 2

TimeVals == 0..MaxTime
YVals == {-1, 1, 2}
Kinds == {"grow", "time", "osc"}

\* ---------------------------------------------------------------- ndarray
NoArr == [shape |-> <<>>, data |-> <<>>]

Scalar(v) == [shape |-> <<>>, data |-> <<v>>]

Vector(d) == [shape |-> <<Len(d)>>, data |-> d]

ShapeSize(s) ==
    IF s = <<>> THEN 1 ELSE IF Len(s) = 1 THEN s[1] ELSE s[1] * s[2]

Size(a) == Len(a.data)

Zeros(s) == [shape |-> s, data |-> [j \in 1..ShapeSize(s) |-> 0]]

\* a[i], indexing along the first axis
Item(a, i) ==
    LET inner == Tail(a.shape)
        sz == ShapeSize(inner)
    IN [shape |-> inner, data |-> SubSeq(a.data, i * sz + 1, (i + 1) * sz)]

\* a[i] = d, where d already has the size of one item of a
SetItem(a, i, d) ==
    LET sz == ShapeSize(Tail(a.shape))
    IN [a EXCEPT !.data = [j \in 1..Len(a.data) |->
            IF j > i * sz /\ j <= (i + 1) * sz THEN d[j - i * sz] ELSE a.data[j]]]

Reshape(a, s) == [a EXCEPT !.shape = s]

Max(a, b) == IF a >= b THEN a ELSE b

\* numpy broadcasting of two arrays of at most one dimension
Broadcastable(s1, s2) ==
    \/ s1 = <<>>
    \/ s2 = <<>>
    \/ s1[1] = s2[1]
    \/ s1[1] = 1
    \/ s2[1] = 1

BroadcastShape(s1, s2) ==
    IF s1 = <<>> THEN s2
    ELSE IF s2 = <<>> THEN s1
    ELSE <<Max(s1[1], s2[1])>>

Pick(a, j) == IF Size(a) = 1 THEN a.data[1] ELSE a.data[j]

BroadcastAdd(a, b) ==
    LET s == BroadcastShape(a.shape, b.shape)
    IN [shape |-> s, data |-> [j \in 1..ShapeSize(s) |-> Pick(a, j) + Pick(b, j)]]

Times(a, c) == [a EXCEPT !.data = [j \in 1..Len(a.data) |-> a.data[j] * c]]

\* can an array of shape src be assigned to a slot of shape <<m>>
CanAssign(src, m) == src = <<>> \/ src[1] = m \/ src[1] = 1

\* ---------------------------------------------------------------- odefun
OutShapes == {<<>>} \cup {<<k>> : k \in 1..MaxM}

DerivElem(k, tt, yd, j) ==
    CASE k = "grow" -> yd[j]
      [] k = "time" -> tt
      [] k = "osc" -> IF j < Len(yd) THEN yd[j + 1] ELSE 0 - yd[1]

odefun(k, tt, ya, s) ==
    [shape |-> s,
     data |-> [j \in 1..ShapeSize(s) |->
                  DerivElem(k, tt, ya.data, ((j - 1) % Size(ya)) + 1)]]

\* ---------------------------------------------------------------- euler
num_times == tspan.shape[1]

num_states == Max(Size(y0), 1)

\* mutation: the check compares sizes, not shapes
IncompatibleBySize(r, init) == Size(r) # Size(init)


Incompatible(r, init) == r.shape # init.shape

FirstRow(init, m) == [j \in 1..m |-> Pick(init, j)]

\* mutation: the loop stops one iteration early
LoopBoundShort(n) == n - 2


LoopBound(n) == n - 1

\* mutation: every evaluation uses the initial row
StateArgInitial(ys, i) == Item(ys, 0)

\* mutation: the whole output array is passed, not its current row
StateArgWhole(ys, i) == ys


StateArg(ys, i) == Item(ys, i)

\* mutation: the grid is taken to be uniform
StepSizeUniform(ts, i) == ts.data[2] - ts.data[1]


StepSize(ts, i) == ts.data[i + 2] - ts.data[i + 1]

\* mutation: the time is recomputed from the first step size
NextTimeUniform(ts, tt, i) == tt.data[i + 1] + (ts.data[2] - ts.data[1])


NextTime(ts, tt, i) == ts.data[i + 2]

\* mutation: the new state overwrites the current row
NextRowSame(i) == i


NextRow(i) == i + 1

\* mutation: the increment replaces the state instead of being added to it
EulerUpdateNoCarry(row, yprime, dt) == BroadcastAdd(Zeros(row.shape), Times(yprime, dt))


EulerUpdate(row, yprime, dt) == BroadcastAdd(row, Times(yprime, dt))

\* mutation: the shape check is repeated at every step
StepOutcomeChecked(row, yprime, dt) ==
    IF yprime.shape # row.shape
    THEN [err |-> "incompatible", data |-> <<>>]
    ELSE [err |-> "none",
          data |-> [j \in 1..row.shape[1] |-> row.data[j] + yprime.data[j] * dt]]


StepOutcome(row, yprime, dt) ==
    IF ~Broadcastable(row.shape, yprime.shape)
    THEN [err |-> "broadcast", data |-> <<>>]
    ELSE LET s == EulerUpdate(row, yprime, dt)
         IN IF ~CanAssign(s.shape, row.shape[1])
            THEN [err |-> "broadcast", data |-> <<>>]
            ELSE [err |-> "none", data |-> [j \in 1..row.shape[1] |-> Pick(s, j)]]

\* mutation: the output is never flattened
ShouldFlattenNever(m) == FALSE


ShouldFlatten(m) == m = 1

\* ---------------------------------------------------------------- actions
SeqsUpTo(S, n) == UNION {[1..k -> S] : k \in 1..n}

Init ==
    /\ tspan \in {Vector(d) : d \in SeqsUpTo(TimeVals, MaxN)}
    /\ y0 \in {Scalar(v) : v \in YVals} \cup {Vector(d) : d \in SeqsUpTo(YVals, MaxM)}
    /\ kind \in Kinds
    /\ pc = "validate"
    /\ f = NoArr
    /\ t = NoArr
    /\ y = NoArr
    /\ idx = 0
    /\ calls = <<>>
    /\ err = "none"
    /\ allMatch = TRUE

Validate ==
    /\ pc = "validate"
    /\ \E s \in OutShapes :
         LET r == odefun(kind, tspan.data[1], y0, s)
         IN /\ f' = r
            /\ calls' = Append(calls, [t |-> tspan.data[1], y |-> y0])
            /\ allMatch' = (s = y0.shape)
            /\ IF Incompatible(r, y0)
               THEN pc' = "raised" /\ err' = "incompatible"
               ELSE pc' = "alloc" /\ err' = err
    /\ UNCHANGED <<tspan, y0, kind, t, y, idx>>

Allocate ==
    /\ pc = "alloc"
    /\ t' = SetItem(Zeros(<<num_times>>), 0, <<tspan.data[1]>>)
    /\ y' = SetItem(Zeros(<<num_times, num_states>>), 0, FirstRow(y0, num_states))
    /\ pc' = "loop"
    /\ UNCHANGED <<tspan, y0, kind, f, idx, calls, err, allMatch>>

Step ==
    /\ pc = "loop"
    /\ idx < LoopBound(num_times)
    /\ \E s \in OutShapes :
         LET arg == StateArg(y, idx)
             yprime == odefun(kind, t.data[idx + 1], arg, s)
             dt == StepSize(tspan, idx)
             out == StepOutcome(arg, yprime, dt)
         IN /\ calls' = Append(calls, [t |-> t.data[idx + 1], y |-> arg])
            /\ allMatch' = (allMatch /\ s = arg.shape)
            /\ IF out.err # "none"
               THEN /\ pc' = "raised"
                    /\ err' = out.err
                    /\ UNCHANGED <<t, y, idx>>
               ELSE /\ y' = SetItem(y, NextRow(idx), out.data)
                    /\ t' = SetItem(t, idx + 1, <<NextTime(tspan, t, idx)>>)
                    /\ idx' = idx + 1
                    /\ UNCHANGED <<pc, err>>
    /\ UNCHANGED <<tspan, y0, kind, f>>

Finish ==
    /\ pc = "loop"
    /\ idx >= LoopBound(num_times)
    /\ y' = IF ShouldFlatten(num_states) THEN Reshape(y, t.shape) ELSE y
    /\ pc' = "done"
    /\ UNCHANGED <<tspan, y0, kind, f, t, idx, calls, err, allMatch>>

Next == Validate \/ Allocate \/ Step \/ Finish

Spec == Init /\ [][Next]_vars

\* The calls of one behaviour run to completion: the interpreter executes the
\* body sequentially and odefun is assumed to return.  The temporal check
\* draws the initial values from {1}; shapes, grids and derivative laws are
\* those of Init.
FairInit == Init /\ \A j \in 1..Size(y0) : y0.data[j] = 1

FairSpec == FairInit /\ [][Next]_vars /\ WF_vars(Next)

\* ---------------------------------------------------------------- claims
Allocated == pc \in {"loop", "done"}

RECURSIVE Pow2(_)
Pow2(n) == IF n = 0 THEN 1 ELSE 2 * Pow2(n - 1)

UnitGrid == \A i \in 1..num_times : tspan.data[i] = i - 1

\* C1: when every derivative result has the shape of the state it was
\* evaluated from, each computed state obeys the forward Euler law
\* y[i+1] = y[i] + derivative(times[i], y[i]) * (times[i+1] - times[i]),
\* elementwise, for negative and zero steps too.
C1_SteppingLaw ==
    (Allocated /\ allMatch) =>
        \A i \in 0..(idx - 1) : \A j \in 1..num_states :
            Item(y, i + 1).data[j] =
                Item(y, i).data[j]
                + DerivElem(kind, tspan.data[i + 1], Item(y, i).data, j)
                  * (tspan.data[i + 2] - tspan.data[i + 1])

C1_Witness ==
    /\ pc = "done" /\ allMatch
    /\ num_times >= 3
    /\ tspan.data[2] < tspan.data[1]
    /\ tspan.data[3] = tspan.data[2]
    /\ y0.shape = <<2>>
    /\ kind = "osc"
    /\ Item(y, 1) # Item(y, 0)

\* C2 as stated: a successful call invokes the derivative N-1 times in
\* total, the validation evaluation included.
C2_Original == pc = "done" => Len(calls) = num_times - 1

\* C2 amended: a successful call invokes the derivative N times: once for
\* validation at (times[0], initial_state) and once per grid point but the
\* last in the loop, the first loop call repeating times[0] and the initial
\* values.
C2_CallCount ==
    pc = "done" =>
        /\ Len(calls) = num_times
        /\ calls[1] = [t |-> tspan.data[1], y |-> y0]
        /\ num_times >= 2 =>
              /\ calls[2].t = tspan.data[1]
              /\ calls[2].y.data = y0.data

C2_Witness == pc = "done" /\ num_times >= 3 /\ Len(calls) = num_times

\* C3: a first derivative result whose shape differs from the initial
\* state's makes the call raise the incompatibility error after exactly one
\* derivative call, with no output allocated and the loop never entered.
C3_MismatchFails ==
    (f # NoArr /\ f.shape # y0.shape) =>
        /\ pc = "raised"
        /\ err = "incompatible"
        /\ Len(calls) = 1
        /\ t = NoArr
        /\ y = NoArr
        /\ idx = 0

C3_Witness ==
    /\ pc = "raised" /\ err = "incompatible"
    /\ y0.shape = <<>>
    /\ f.shape = <<1>>
    /\ Size(f) = Size(y0)

\* C4 as stated: every returned state has the shape of the initial state,
\* a one-element vector included.
C4_Original ==
    pc = "done" => \A i \in 0..(num_times - 1) : Item(y, i).shape = y0.shape

\* C4 amended: the returned states are scalars when the initial state is a
\* scalar or a one-element vector, and vectors of size M when it is a vector
\* of size M >= 2.
C4_ShapeConvention ==
    pc = "done" =>
        /\ y.shape[1] = num_times
        /\ \A i \in 0..(num_times - 1) :
              Item(y, i).shape = (IF Size(y0) = 1 THEN <<>> ELSE y0.shape)

C4_Witness ==
    /\ pc = "done"
    /\ y0.shape = <<1>>
    /\ y.shape = <<num_times>>
    /\ num_times >= 2

C7_Doubling ==
    (pc = "done" /\ kind = "grow" /\ y0.shape = <<>> /\ UnitGrid) =>
        /\ y.shape = <<num_times>>
        /\ \A i \in 0..(num_times - 1) : y.data[i + 1] = y0.data[1] * Pow2(i)

C7_Witness ==
    /\ pc = "done" /\ kind = "grow"
    /\ y0 = Scalar(1)
    /\ tspan.data = <<0, 1, 2>>
    /\ y = Vector(<<1, 2, 4>>)

\* C8: once the first derivative result has passed the shape check, no later
\* result, whatever its shape, makes the call raise the incompatibility
\* error.
C8_CheckedOnce ==
    (f # NoArr /\ f.shape = y0.shape) => err # "incompatible"

C8_Witness ==
    /\ f.shape = y0.shape
    /\ ~allMatch
    /\ pc = "raised"
    /\ err = "broadcast"
    /\ Len(calls) >= 3

\* C9: the loop evaluates the derivative at grid indices 0, 1, ..., N-2 in
\* order, each time on the final state of that index; a step writes only the
\* next state; states above the current index are still zero; the call
\* returns after N-1 iterations unless a derivative result has a wrong shape.
C9_Order ==
    Allocated =>
        /\ Len(calls) = idx + 1
        /\ \A i \in 0..(idx - 1) :
              /\ calls[i + 2].t = tspan.data[i + 1]
              /\ calls[i + 2].y.data = Item(y, i).data
        /\ \A r \in (idx + 1)..(num_times - 1) :
              Item(y, r).data = [j \in 1..num_states |-> 0]

C9_WriteOnce ==
    (pc = "loop" /\ y' # y) =>
        /\ y'.data = y.data <=> pc' = "done"
        /\ pc' = "loop" =>
              /\ idx' = idx + 1
              /\ \A r \in 0..(num_times - 1) :
                    r # idx + 1 => Item(y', r) = Item(y, r)

C9_Sequential ==
    /\ []C9_Order
    /\ [][C9_WriteOnce]_vars
    /\ [](pc = "done" => idx = num_times - 1)
    /\ <>(pc = "done" \/ ~allMatch)

C9_Witness ==
    /\ pc = "done" /\ allMatch
    /\ num_times >= 3
    /\ idx = num_times - 1
    /\ Item(y, 2) # Item(y, 1)

\* C10 as stated: every derivative call gets a state of the shape of the
\* initial state.
C10_Original ==
    \A k \in 1..Len(calls) : calls[k].y.shape = y0.shape

\* C10 amended: every derivative call gets a state with as many elements as
\* the initial state; the validation call gets the initial state itself and
\* every loop call gets a one-dimensional vector, which for a scalar initial
\* state is a one-element vector.
C10_ArgShape ==
    \A k \in 1..Len(calls) :
        /\ Size(calls[k].y) = Size(y0)
        /\ k = 1 => calls[k].y = y0
        /\ k >= 2 => calls[k].y.shape = <<num_states>>

C10_Witness ==
    /\ Len(calls) >= 3
    /\ y0.shape = <<>>
    /\ calls[1].y.shape = <<>>
    /\ calls[2].y.shape = <<1>>

====
